---- MODULE Spec2Model ----
(***************************************************************************)
(* A model of the RSS aggregator of src/src/index.ts: the feed registry    *)
(* (RSSAggregator.feeds), its loaders, the identifier derivation, the      *)
(* category resolver, the fan-out/fan-in fetch of getAllFeedItems and the  *)
(* CallTool request handler.                                               *)
(*                                                                         *)
(* JavaScript strings are modelled as sequences of one-character strings,  *)
(* so that toLowerCase, includes, startsWith, split and the regular        *)
(* expressions of the code are computed and never assumed.                 *)
(***************************************************************************)
EXTENDS Integers, Sequences, FiniteSets, TLC

\* ------------------------------------------------------------------------
\* JavaScript values and string primitives
\* ------------------------------------------------------------------------

\* The value undefined (an absent property). It is a one-element sequence
\* whose element is no character, so it differs from every string.
Undefined == <<"undefined">>

\* JavaScript truthiness of a string-or-undefined value.
Truthy(x) == x # Undefined /\ x # <<>>

\* a || b for string-or-undefined operands.
OrElse(a, b) == IF Truthy(a) THEN a ELSE b

UpperChars == <<"A", "B", "C", "D", "E", "F", "G", "H", "I", "J", "K", "L", "M",
                "N", "O", "P", "Q", "R", "S", "T", "U", "V", "W", "X", "Y", "Z">>

LowerChars == <<"a", "b", "c", "d", "e", "f", "g", "h", "i", "j", "k", "l", "m",
                "n", "o", "p", "q", "r", "s", "t", "u", "v", "w", "x", "y", "z">>

DigitChars == <<"0", "1", "2", "3", "4", "5", "6", "7", "8", "9">>

\* The characters the model's strings are written in, in UTF-16 code unit order.
CodeUnitOrder == <<" ", "-", ".", "/">> \o DigitChars \o <<":">> \o UpperChars
                 \o <<"_">> \o LowerChars

Range(s) == {s[i] : i \in 1..Len(s)}

\* The smallest index of c in s (c must occur in s).
IndexOf(s, c) == CHOOSE i \in 1..Len(s) :
                    s[i] = c /\ \A j \in 1..(i - 1) : s[j] # c

DigitSet == Range(DigitChars)

UpperSet == Range(UpperChars)

LowerSet == Range(LowerChars)

IsDigit(c) == c \in DigitSet

IsUpper(c) == c \in UpperSet

IsLower(c) == c \in LowerSet

IsAlnum(c) == IsDigit(c) \/ IsUpper(c) \/ IsLower(c)

LowerOfUpper == [c \in UpperSet |-> LowerChars[IndexOf(UpperChars, c)]]

ToLowerChar(c) == IF IsUpper(c) THEN LowerOfUpper[c] ELSE c

\* String.prototype.toLowerCase
ToLowerCase(s) == [i \in 1..Len(s) |-> ToLowerChar(s[i])]

\* String.prototype.startsWith
StartsWith(s, p) == Len(p) <= Len(s) /\ SubSeq(s, 1, Len(p)) = p

\* s has p at (0-based) offset i
MatchAt(s, p, i) == i + Len(p) <= Len(s) /\ SubSeq(s, i + 1, i + Len(p)) = p

\* String.prototype.includes
Includes(s, p) == \E i \in 0..Len(s) : MatchAt(s, p, i)

\* String.prototype.indexOf, as a 0-based offset (only used when Includes(s, p)).
FirstOffset(s, p) == CHOOSE i \in 0..Len(s) :
                        /\ MatchAt(s, p, i)
                        /\ \A j \in 0..(i - 1) : ~MatchAt(s, p, j)

\* String.prototype.replace with a string pattern: the first occurrence only.
ReplaceFirst(s, p, r) ==
    IF Includes(s, p)
    THEN LET i == FirstOffset(s, p)
         IN  SubSeq(s, 1, i) \o r \o SubSeq(s, i + Len(p) + 1, Len(s))
    ELSE s

\* Replace every character that fails keep(c) by r (a one-character class
\* pattern with the g flag).
MapChars(s, Keep(_), r) == [i \in 1..Len(s) |-> IF Keep(s[i]) THEN s[i] ELSE r]

\* String.prototype.slice(n)
Slice(s, n) == SubSeq(s, n + 1, Len(s))

\* The first element of s.split(sep) for a one-character separator.
FirstToken(s, sep) ==
    IF sep \in Range(s) THEN SubSeq(s, 1, IndexOf(s, sep) - 1)
    ELSE s

CodeUnitOf == [c \in Range(CodeUnitOrder) |-> IndexOf(CodeUnitOrder, c)]

CharCode(c) == CodeUnitOf[c]

\* a < b in code unit order: the order of Array.prototype.sort() on strings.
RECURSIVE StrLess(_, _)
StrLess(a, b) ==
    IF Len(b) = 0 THEN FALSE
    ELSE IF Len(a) = 0 THEN TRUE
    ELSE IF a[1] = b[1] THEN StrLess(Tail(a), Tail(b))
    ELSE CharCode(a[1]) < CharCode(b[1])

\* ------------------------------------------------------------------------
\* String literals of the source
\* ------------------------------------------------------------------------

S_www == <<"w", "w", "w", ".">>

S_http == <<"h", "t", "t", "p", ":", "/", "/">>

S_https == <<"h", "t", "t", "p", "s", ":", "/", "/">>

S_dashdash == <<"-", "-">>

S_UnnamedFeed == <<"U", "n", "n", "a", "m", "e", "d", " ", "F", "e", "e", "d">>

S_Uncategorized == <<"U", "n", "c", "a", "t", "e", "g", "o", "r", "i", "z", "e", "d">>

S_opml == <<".", "o", "p", "m", "l">>

S_json == <<".", "j", "s", "o", "n">>

S_latest == <<"l", "a", "t", "e", "s", "t">>

S_top == <<"t", "o", "p">>

S_best == <<"b", "e", "s", "t">>

S_history == <<"h", "i", "s", "t", "o", "r", "y">>

S_comments == <<"c", "o", "m", "m", "e", "n", "t", "s">>

S_list == <<"l", "i", "s", "t">>

S_setFeedsPath == <<"s", "e", "t", "-", "f", "e", "e", "d", "s", "-", "p", "a", "t", "h">>

S_hackernews == <<"h", "a", "c", "k", "e", "r", "n", "e", "w", "s">>

S_techcrunch == <<"t", "e", "c", "h", "c", "r", "u", "n", "c", "h">>

S_HackerNews == <<"H", "a", "c", "k", "e", "r", " ", "N", "e", "w", "s">>

S_TechCrunch == <<"T", "e", "c", "h", "C", "r", "u", "n", "c", "h">>

S_TechNews == <<"T", "e", "c", "h", " ", "N", "e", "w", "s">>

S_hnUrl == <<"h", "t", "t", "p", "s", ":", "/", "/", "n", "e", "w", "s", ".", "y", "c", "o", "m", "b", "i", "n", "a", "t", "o", "r", ".", "c", "o", "m", "/", "r", "s", "s">>

S_hnHtml == <<"h", "t", "t", "p", "s", ":", "/", "/", "n", "e", "w", "s", ".", "y", "c", "o", "m", "b", "i", "n", "a", "t", "o", "r", ".", "c", "o", "m", "/">>

S_tcUrl == <<"h", "t", "t", "p", "s", ":", "/", "/", "t", "e", "c", "h", "c", "r", "u", "n", "c", "h", ".", "c", "o", "m", "/", "f", "e", "e", "d", "/">>

S_tcHtml == <<"h", "t", "t", "p", "s", ":", "/", "/", "t", "e", "c", "h", "c", "r", "u", "n", "c", "h", ".", "c", "o", "m", "/">>

\* ------------------------------------------------------------------------
\* createFeedId
\* ------------------------------------------------------------------------

IsHostChar(c) == IsAlnum(c) \/ c = "." \/ c = "-"

\* The authority of an http(s) URL: what follows the scheme, up to the first
\* "/" (the model's URLs carry no port, user info, query or fragment).
Authority(url) ==
    LET rest == IF StartsWith(url, S_https) THEN Slice(url, Len(S_https))
                ELSE Slice(url, Len(S_http))
    IN  FirstToken(rest, "/")

\* new URL(url) succeeds: here, an http or https URL with a non-empty host of
\* host characters. Everything else (undefined included) throws.
URLParses(url) ==
    /\ url # Undefined
    /\ StartsWith(url, S_https) \/ StartsWith(url, S_http)
    /\ LET host == Authority(url)
       IN  Len(host) > 0 /\ \A i \in 1..Len(host) : IsHostChar(host[i])

\* new URL(url).hostname: the host, lowercased by the URL parser.
Hostname(url) == ToLowerCase(Authority(url))

\* url.replace(/https?:\/\//g, ''): every scheme prefix, left to right.
RECURSIVE StripSchemes(_)
StripSchemes(s) ==
    IF Len(s) = 0 THEN s
    ELSE IF StartsWith(s, S_https) THEN StripSchemes(Slice(s, Len(S_https)))
    ELSE IF StartsWith(s, S_http) THEN StripSchemes(Slice(s, Len(S_http)))
    ELSE <<s[1]>> \o StripSchemes(Tail(s))

IsNotDot(c) == c # "."

\* createFeedId throws: the catch block calls url.replace on a value that is
\* no string.
CreateFeedIdThrows(url) == url = Undefined

CreateFeedId(url) ==
    IF URLParses(url)
    THEN MapChars(ReplaceFirst(Hostname(url), S_www, <<>>), IsNotDot, "-")
    ELSE ToLowerCase(MapChars(StripSchemes(url), IsAlnum, "-"))

\* ------------------------------------------------------------------------
\* The registry: a JavaScript Map, which keeps insertion order. It is a
\* sequence of entries [id, title, url, htmlUrl, category] with distinct ids.
\* ------------------------------------------------------------------------

Feed(title, url, htmlUrl, category) ==
    [title |-> title, url |-> url, htmlUrl |-> htmlUrl, category |-> category]

Entry(id, feed) ==
    [id |-> id, title |-> feed.title, url |-> feed.url, htmlUrl |-> feed.htmlUrl,
     category |-> feed.category]

MapHas(m, id) == \E i \in 1..Len(m) : m[i].id = id

\* Map.prototype.get (only used when MapHas(m, id)).
MapGet(m, id) == m[CHOOSE i \in 1..Len(m) : m[i].id = id]

\* Map.prototype.set: an existing key keeps its place, a new key goes last.
MapSet(m, id, feed) ==
    IF MapHas(m, id)
    THEN [i \in 1..Len(m) |-> IF m[i].id = id THEN Entry(id, feed) ELSE m[i]]
    ELSE Append(m, Entry(id, feed))

\* ------------------------------------------------------------------------
\* Format loaders. A loader mutates this.feeds as it goes and may throw: its
\* result is [ok, feeds], feeds being the registry it leaves behind.
\* ------------------------------------------------------------------------

Done(feeds) == [ok |-> TRUE, feeds |-> feeds]

Thrown(feeds) == [ok |-> FALSE, feeds |-> feeds]

\* feeds.forEach(feed => { createFeedId; this.feeds.set }) of parseJSONFeeds.
RECURSIVE IngestJSON(_, _)
IngestJSON(entries, feeds) ==
    IF Len(entries) = 0 THEN Done(feeds)
    ELSE LET e == Head(entries)
         IN  IF CreateFeedIdThrows(e.url) THEN Thrown(feeds)
             ELSE IngestJSON(Tail(entries),
                             MapSet(feeds, CreateFeedId(e.url),
                                    Feed(e.title, e.url, e.htmlUrl, e.category)))

\* A file's content is [kind, ...]: kind "json" with the parsed value (an
\* array of entries when isArray), kind "xml" with the parsed document
\* (hasOutline: opml.body.outline is there), kind "text" for anything else.
ParseJSONFeeds(content, feeds) ==
    IF content.kind # "json" THEN Thrown(feeds)          \* JSON.parse throws
    ELSE IF ~content.isArray THEN Thrown(feeds)          \* feeds.forEach is no function
    ELSE IngestJSON(content.entries, feeds)

\* processOutline over an array of outlines. An outline is
\* [xmlUrl, title, text, htmlUrl, outline], outline being its children.
RECURSIVE ProcessOutline(_, _, _)
ProcessOutline(outlines, category, feeds) ==
    IF Len(outlines) = 0 THEN feeds
    ELSE LET o == Head(outlines)
             after ==
               IF Truthy(o.xmlUrl)
               THEN MapSet(feeds, CreateFeedId(o.xmlUrl),
                           Feed(OrElse(o.title, OrElse(o.text, S_UnnamedFeed)),
                                o.xmlUrl, o.htmlUrl, category))
               ELSE IF Len(o.outline) > 0
               THEN ProcessOutline(o.outline,
                                   OrElse(o.title, OrElse(o.text, category)), feeds)
               ELSE feeds
         IN  ProcessOutline(Tail(outlines), category, after)

ParseOPMLFeeds(content, feeds) ==
    IF content.kind # "xml" \/ ~content.hasOutline THEN Thrown(feeds)
    ELSE Done(ProcessOutline(content.outline, <<>>, feeds))

\* ------------------------------------------------------------------------
\* The environment: the files the server may be pointed at. Paths, URLs,
\* titles and categories are sample data, chosen to exercise every branch of
\* the loaders: identifier collisions (U_b, U_b2), a URL that does not
\* parse (U_rel), nested folders, a missing title, a missing category, an
\* entry with no url after a good one.
\* ------------------------------------------------------------------------

SAMPLE_OPML_PATH == <<"/", "s", "a", "m", "p", "l", "e", ".", "o", "p", "m", "l">>

P_a == <<"/", "a", ".", "j", "s", "o", "n">>

P_b == <<"/", "b", ".", "O", "P", "M", "L">>

P_part == <<"/", "p", "a", "r", "t", ".", "j", "s", "o", "n">>

P_txt == <<"/", "c", ".", "t", "x", "t">>

P_badJson == <<"/", "x", ".", "j", "s", "o", "n">>

P_badOpml == <<"/", "x", ".", "o", "p", "m", "l">>

P_obj == <<"/", "o", ".", "j", "s", "o", "n">>

P_dir == <<"/", "d", ".", "j", "s", "o", "n">>

P_missing == <<"/", "n", "o", ".", "j", "s", "o", "n">>

P_empty == <<"/", "e", ".", "j", "s", "o", "n">>

U_a1 == <<"h", "t", "t", "p", "s", ":", "/", "/", "w", "w", "w", ".", "a", ".", "i", "o", "/", "r", "s", "s">>

U_b2 == <<"h", "t", "t", "p", ":", "/", "/", "B", ".", "o", "r", "g", "/", "x">>

U_b == <<"h", "t", "t", "p", "s", ":", "/", "/", "b", ".", "o", "r", "g", "/", "f">>

U_rel == <<"f", "e", "e", "d", ".", "x", "m", "l">>

T_Alpha == <<"A", "l", "p", "h", "a">>

T_Sports == <<"S", "p", "o", "r", "t", "s", " ", "H", "u", "b">>

T_A2 == <<"A", "2">>

T_Gamma == <<"G", "a", "m", "m", "a">>

T_Beta == <<"b", "e", "t", "a">>

K_Tech == <<"T", "e", "c", "h">>

K_Science == <<"S", "c", "i", "e", "n", "c", "e">>

K_Deep == <<"D", "e", "e", "p", " ", "T", "e", "c", "h">>

JsonEntry(title, url, category) ==
    [title |-> title, url |-> url, htmlUrl |-> Undefined, category |-> category]

JsonFile(entries) == [kind |-> "json", isArray |-> TRUE, entries |-> entries]

Leaf(title, text, xmlUrl) ==
    [xmlUrl |-> xmlUrl, title |-> title, text |-> text, htmlUrl |-> Undefined,
     outline |-> <<>>]

Folder(title, text, children) ==
    [xmlUrl |-> Undefined, title |-> title, text |-> text, htmlUrl |-> Undefined,
     outline |-> children]

OpmlFile(outlines) == [kind |-> "xml", hasOutline |-> TRUE, outline |-> outlines]

Paths == {SAMPLE_OPML_PATH, P_a, P_b, P_part, P_txt, P_badJson, P_badOpml, P_obj,
          P_dir, P_missing, P_empty}

\* fs.existsSync
FileExists(path) == path \in Paths \ {P_missing}

\* fs.readFileSync succeeds (P_dir exists and cannot be read).
FileReadable(path) == FileExists(path) /\ path # P_dir

\* fs.readFileSync(path, 'utf-8'), already seen through the parser it is for.
FileContent(path) ==
    CASE path = SAMPLE_OPML_PATH ->
           OpmlFile(<<Folder(S_TechNews, Undefined,
                             <<Leaf(S_HackerNews, Undefined, S_hnUrl)>>),
                      Leaf(Undefined, Undefined, U_b)>>)
      [] path = P_a ->
           JsonFile(<<JsonEntry(T_Alpha, U_a1, K_Tech),
                      JsonEntry(T_Sports, U_b, Undefined)>>)
      [] path = P_b ->
           OpmlFile(<<Folder(Undefined, K_Science,
                             <<Leaf(Undefined, T_A2, U_b2),
                               Folder(K_Deep, Undefined,
                                      <<Leaf(T_Gamma, Undefined, U_rel)>>)>>)>>)
      [] path = P_part ->
           JsonFile(<<JsonEntry(T_Beta, U_rel, S_TechNews),
                      JsonEntry(T_Gamma, Undefined, K_Tech)>>)
      [] path = P_empty -> JsonFile(<<>>)
      [] path = P_obj -> [kind |-> "json", isArray |-> FALSE]
      [] path = P_badOpml -> [kind |-> "xml", hasOutline |-> FALSE]
      [] OTHER -> [kind |-> "text"]

\* ------------------------------------------------------------------------
\* Loading the registry
\* ------------------------------------------------------------------------

LastIndexOf(s, c) == CHOOSE i \in 1..Len(s) :
                        s[i] = c /\ \A j \in (i + 1)..Len(s) : s[j] # c

\* path.basename, for "/"-separated paths.
Basename(path) == IF "/" \in Range(path) THEN Slice(path, LastIndexOf(path, "/"))
                  ELSE path

\* path.extname: from the last "." of the base name, unless the base name
\* has none or starts with its only one.
Extname(path) ==
    LET base == Basename(path)
    IN  IF "." \in Range(base) /\ LastIndexOf(base, ".") > 1
        THEN Slice(base, LastIndexOf(base, ".") - 1)
        ELSE <<>>

LoadFeedsFromFile(filePath, feeds) ==
    IF ~FileReadable(filePath) THEN Thrown(feeds)
    ELSE LET fileExt == ToLowerCase(Extname(filePath))
         IN  IF fileExt = S_opml THEN ParseOPMLFeeds(FileContent(filePath), feeds)
             ELSE IF fileExt = S_json THEN ParseJSONFeeds(FileContent(filePath), feeds)
             ELSE Thrown(feeds)

\* addDefaultFeeds: clear, then the two built-in feeds.
AddDefaultFeeds ==
    MapSet(MapSet(<<>>, S_hackernews, Feed(S_HackerNews, S_hnUrl, S_hnHtml, S_TechNews)),
           S_techcrunch, Feed(S_TechCrunch, S_tcUrl, S_tcHtml, S_TechNews))

\* initializeFeeds, for a configured feedsPath (Undefined when the config
\* names none): the registry the constructor leaves.
InitializeFeeds(configured) ==
    LET from == IF Truthy(configured) /\ FileExists(configured) THEN configured
                ELSE SAMPLE_OPML_PATH
        loaded == LoadFeedsFromFile(from, <<>>)
    IN  IF loaded.ok THEN loaded.feeds ELSE AddDefaultFeeds

\* setFeedsPath: [ok, feeds, feedsPath].
SetFeedsPath(path, feeds, feedsPath) ==
    IF ~FileExists(path)
    THEN [ok |-> FALSE, feeds |-> feeds, feedsPath |-> feedsPath]
    ELSE LET loaded == LoadFeedsFromFile(path, feeds)
         IN  [ok |-> loaded.ok, feeds |-> loaded.feeds, feedsPath |-> path]

\* ------------------------------------------------------------------------
\* Limit extraction (CallTool handler)
\* ------------------------------------------------------------------------

DefaultLimit == 10

MinLimit == 1

MaxLimit == 50

DigitValueOf == [c \in DigitSet |-> IndexOf(DigitChars, c) - 1]

DigitValue(c) == DigitValueOf[c]

\* parseInt(digits, 10) of a non-empty run of digits.
RECURSIVE ParseInt(_)
ParseInt(digits) ==
    IF Len(digits) = 0 THEN 0
    ELSE 10 * ParseInt(SubSeq(digits, 1, Len(digits) - 1))
           + DigitValue(digits[Len(digits)])

\* The longest run of digits at the start of s.
RECURSIVE DigitRun(_)
DigitRun(s) ==
    IF Len(s) > 0 /\ IsDigit(s[1]) THEN <<s[1]>> \o DigitRun(Tail(s)) ELSE <<>>

\* /--(\d+)/ matches at (0-based) offset i of s.
LimitPatternAt(s, i) == MatchAt(s, S_dashdash, i) /\ Len(DigitRun(Slice(s, i + 2))) > 0

\* param.match(/--(\d+)/) finds a match (the pattern is not anchored).
LimitPatternMatches(s) == \E i \in 0..Len(s) : LimitPatternAt(s, i)

\* limitMatch[1]: the digits of the leftmost match.
LimitPatternGroup(s) ==
    LET i == CHOOSE k \in 0..Len(s) :
                LimitPatternAt(s, k) /\ \A j \in 0..(k - 1) : ~LimitPatternAt(s, j)
    IN  DigitRun(Slice(s, i + 2))

Min(a, b) == IF a <= b THEN a ELSE b

Max(a, b) == IF a >= b THEN a ELSE b

\* A limit extraction with the pattern anchored at both ends (/^--(\d+)$/).
ExtractLimitAnchored(param) ==
    IF StartsWith(param, S_dashdash)
         /\ Len(param) > Len(S_dashdash)
         /\ DigitRun(Slice(param, Len(S_dashdash))) = Slice(param, Len(S_dashdash))
    THEN Min(Max(ParseInt(Slice(param, Len(S_dashdash))), MinLimit), MaxLimit)
    ELSE DefaultLimit

\* The handler's limit: 10, or the digits of the leftmost "--<digits>" of a
\* param that starts with "--", clamped to [1,50].
ExtractLimit(param) ==
    IF StartsWith(param, S_dashdash) /\ LimitPatternMatches(param)
    THEN Min(Max(ParseInt(LimitPatternGroup(param)), MinLimit), MaxLimit)
    ELSE DefaultLimit

\* ------------------------------------------------------------------------
\* Sorting. Array.prototype.sort is stable; a comparator result of NaN counts
\* as +0 (equal). Insertion from the left gives the stable order, and leaves
\* an element in place when the comparator calls it equal to its neighbour.
\* ------------------------------------------------------------------------

\* Insert x into s behind the last element that shall not follow x.
\* After(a, b): the comparator puts a behind b (compare(a, b) > 0).
InsertSorted(s, x, After(_, _)) ==
    LET stays == {j \in 1..Len(s) : ~After(s[j], x)}
        k == IF stays = {} THEN 0 ELSE CHOOSE j \in stays : \A i \in stays : i <= j
    IN  SubSeq(s, 1, k) \o <<x>> \o SubSeq(s, k + 1, Len(s))

\* The fold below takes each prefix as a value (the one element of a set)
\* before it inserts into it, so that it is computed once.
SortBy(s, After(_, _)) ==
    LET sorted[i \in 0..Len(s)] ==
            IF i = 0 THEN <<>>
            ELSE CHOOSE next \in {InsertSorted(prefix, s[i], After) :
                                    prefix \in {sorted[i - 1]}} : TRUE
    IN  sorted[Len(s)]

StrAfter(a, b) == StrLess(b, a)

\* new Set(values), as a sequence: the distinct values, first seen first.
RECURSIVE Distinct(_)
Distinct(s) ==
    IF Len(s) = 0 THEN s
    ELSE LET front == Distinct(SubSeq(s, 1, Len(s) - 1))
         IN  IF s[Len(s)] \in Range(front) THEN front ELSE Append(front, s[Len(s)])

\* Array.prototype.filter
Select(s, Test(_)) ==
    LET kept[i \in 0..Len(s)] ==
            IF i = 0 THEN <<>>
            ELSE IF Test(s[i]) THEN Append(kept[i - 1], s[i]) ELSE kept[i - 1]
    IN  kept[Len(s)]

\* Array.prototype.find, Undefined when nothing passes.
Find(s, Test(_)) ==
    LET passing == Select(s, Test)
    IN  IF Len(passing) > 0 THEN passing[1] ELSE Undefined

\* ------------------------------------------------------------------------
\* Category resolver
\* ------------------------------------------------------------------------

\* getCategories: the distinct truthy category labels, sorted.
GetCategories(feeds) ==
    LET labelled(e) == Truthy(e.category)
        withLabel == Select(feeds, labelled)
        labels == [i \in 1..Len(withLabel) |-> withLabel[i].category]
    IN  SortBy(Distinct(labels), StrAfter)

keywordMap ==
    <<[category |-> <<"t", "e", "c", "h">>,
       keywords |-> <<<<"t", "e", "c", "h">>,
                     <<"t", "e", "c", "h", "n", "o", "l", "o", "g", "y">>,
                     <<"p", "r", "o", "g", "r", "a", "m", "m", "i", "n", "g">>,
                     <<"s", "o", "f", "t", "w", "a", "r", "e">>,
                     <<"d", "e", "v", "e", "l", "o", "p", "e", "r">>,
                     <<"a", "i">>>>],
      [category |-> <<"n", "e", "w", "s">>,
       keywords |-> <<<<"n", "e", "w", "s">>,
                     <<"h", "e", "a", "d", "l", "i", "n", "e", "s">>,
                     <<"c", "u", "r", "r", "e", "n", "t">>>>],
      [category |-> <<"b", "u", "s", "i", "n", "e", "s", "s">>,
       keywords |-> <<<<"b", "u", "s", "i", "n", "e", "s", "s">>,
                     <<"f", "i", "n", "a", "n", "c", "e">>,
                     <<"e", "c", "o", "n", "o", "m", "y">>,
                     <<"m", "a", "r", "k", "e", "t">>>>],
      [category |-> <<"h", "e", "a", "l", "t", "h">>,
       keywords |-> <<<<"h", "e", "a", "l", "t", "h">>,
                     <<"m", "e", "d", "i", "c", "a", "l">>,
                     <<"w", "e", "l", "l", "n", "e", "s", "s">>,
                     <<"f", "i", "t", "n", "e", "s", "s">>>>],
      [category |-> <<"s", "c", "i", "e", "n", "c", "e">>,
       keywords |-> <<<<"s", "c", "i", "e", "n", "c", "e">>,
                     <<"r", "e", "s", "e", "a", "r", "c", "h">>,
                     <<"s", "t", "u", "d", "y">>,
                     <<"d", "i", "s", "c", "o", "v", "e", "r", "y">>>>],
      [category |-> <<"s", "p", "o", "r", "t", "s">>,
       keywords |-> <<<<"s", "p", "o", "r", "t", "s">>,
                     <<"g", "a", "m", "e">>,
                     <<"t", "e", "a", "m">>,
                     <<"p", "l", "a", "y", "e", "r">>>>]>>

\* getCategoryByKeyword, layer 1: the category that equals the keyword.
ExactMatch(categories, lowercaseKeyword) ==
    LET test(c) == ToLowerCase(c) = lowercaseKeyword
    IN  Find(categories, test)

\* A layer 2 that splits the keyword instead of the category: the category
\* that contains the keyword or the keyword's first word.
PartialTestByKeywordToken(c, lowercaseKeyword) ==
    \/ Includes(ToLowerCase(c), lowercaseKeyword)
    \/ Includes(ToLowerCase(c), FirstToken(lowercaseKeyword, " "))

\* getCategoryByKeyword, layer 2: the category that contains the keyword, or
\* whose first space-separated word the keyword contains.
PartialTest(c, lowercaseKeyword) ==
    \/ Includes(ToLowerCase(c), lowercaseKeyword)
    \/ Includes(lowercaseKeyword, FirstToken(ToLowerCase(c), " "))

PartialMatch(categories, lowercaseKeyword) ==
    LET test(c) == PartialTest(c, lowercaseKeyword)
    IN  Find(categories, test)

\* getCategoryByKeyword, layer 3: the topics of keywordMap, in its order.
RECURSIVE SynonymMatch(_, _, _)
SynonymMatch(topics, categories, lowercaseKeyword) ==
    IF Len(topics) = 0 THEN Undefined
    ELSE LET topic == Head(topics)
             named(c) == \/ Includes(ToLowerCase(c), topic.category)
                         \/ ToLowerCase(c) = topic.category
             hit == \E i \in 1..Len(topic.keywords) :
                       Includes(lowercaseKeyword, topic.keywords[i])
             categoryMatch == Find(categories, named)
         IN  IF hit /\ categoryMatch # Undefined
             THEN categoryMatch
             ELSE SynonymMatch(Tail(topics), categories, lowercaseKeyword)

\* getCategoryByKeyword: the category, or Undefined for null.
GetCategoryByKeyword(keyword, feeds) ==
    LET categories == GetCategories(feeds)
        lowercaseKeyword == ToLowerCase(keyword)
        exactMatch == ExactMatch(categories, lowercaseKeyword)
        partialMatch == PartialMatch(categories, lowercaseKeyword)
    IN  IF exactMatch # Undefined THEN exactMatch
        ELSE IF partialMatch # Undefined THEN partialMatch
        ELSE SynonymMatch(keywordMap, categories, lowercaseKeyword)

\* ------------------------------------------------------------------------
\* getFeedsList
\* ------------------------------------------------------------------------

\* The collation order of the model's characters (case aside): white space,
\* punctuation, digits, letters.
CollationOrder == <<" ", "_", "-", ":", ".", "/">> \o DigitChars \o LowerChars

CollationRankOf == [c \in Range(CollationOrder) |-> IndexOf(CollationOrder, c)]

CollationRank(c) == CollationRankOf[ToLowerChar(c)]

\* a sorts before b letter by letter, case aside.
RECURSIVE PrimaryLess(_, _)
PrimaryLess(a, b) ==
    IF Len(b) = 0 THEN FALSE
    ELSE IF Len(a) = 0 THEN TRUE
    ELSE IF ToLowerChar(a[1]) = ToLowerChar(b[1]) THEN PrimaryLess(Tail(a), Tail(b))
    ELSE CollationRank(a[1]) < CollationRank(b[1])

\* Equal case aside: the first difference decides, lower case first.
RECURSIVE CaseLess(_, _)
CaseLess(a, b) ==
    IF Len(a) = 0 \/ Len(b) = 0 THEN FALSE
    ELSE IF a[1] = b[1] THEN CaseLess(Tail(a), Tail(b))
    ELSE IsLower(a[1])

\* a.localeCompare(b) < 0
LocaleLess(a, b) ==
    \/ PrimaryLess(a, b)
    \/ ToLowerCase(a) = ToLowerCase(b) /\ CaseLess(a, b)

TitleAfter(a, b) == LocaleLess(b.title, a.title)

ListCategory(feed) == OrElse(feed.category, S_Uncategorized)

\* The feed lines of getFeedsList, in output order: [category, title, feedId].
GetFeedsList(feeds) ==
    LET keys == SortBy(Distinct([i \in 1..Len(feeds) |-> ListCategory(feeds[i])]),
                       StrAfter)
        group(category) == LET in(e) == ListCategory(e) = category
                           IN  SortBy(Select(feeds, in), TitleAfter)
        lines(category) == LET sorted == group(category)
                           IN  [i \in 1..Len(sorted) |->
                                  [category |-> category,
                                   title |-> sorted[i].title,
                                   feedId |-> CreateFeedId(sorted[i].url)]]
        out[k \in 0..Len(keys)] ==
            IF k = 0 THEN <<>> ELSE out[k - 1] \o lines(keys[k])
    IN  out[Len(keys)]

\* ------------------------------------------------------------------------
\* Fetching
\* ------------------------------------------------------------------------

\* A date string: [k, t] with k "date" for a string Date parses (t its time),
\* "junk" for one it does not (getTime() is NaN), "none" for undefined.
NoDate == [k |-> "none", t |-> 0]

JunkDate == [k |-> "junk", t |-> 0]

DateAt(t) == [k |-> "date", t |-> t]

\* a || b on date strings
OrDate(a, b) == IF a.k # "none" THEN a ELSE b

\* The inclusion test without its title clause.
IsCandidateByCategory(feed, category) ==
    \/ ~Truthy(category)
    \/ /\ Truthy(feed.category)
       /\ Includes(ToLowerCase(feed.category), ToLowerCase(category))

\* The inclusion test of getAllFeedItems.
IsCandidate(feed, category) ==
    \/ ~Truthy(category)
    \/ /\ Truthy(feed.category)
       /\ ToLowerCase(feed.category) = ToLowerCase(category)
    \/ /\ Truthy(feed.category)
       /\ Includes(ToLowerCase(feed.category), ToLowerCase(category))
    \/ /\ Truthy(feed.title)
       /\ Includes(ToLowerCase(feed.title), ToLowerCase(category))

\* Math.ceil(limit / this.feeds.size), for a registry that is not empty.
ItemsPerFeed(limit, size) == (limit + size - 1) \div size

\* The promise getFeedItems(id, limit) returns once it has looked the feed up
\* and called parser.parseURL(feed.url): the feed it captured, still pending.
Pending(entry, limit) ==
    [id |-> entry.id, feed |-> entry, url |-> entry.url, limit |-> limit,
     status |-> "pending", value |-> <<>>]

\* A getFeedItems that looks the feed up again when its fetch settles.
ItemFeedLookedUpLate(promise, feeds) == MapGet(feeds, promise.id)

\* The feed whose title and links a settling getFeedItems stamps its items
\* with: the one it looked up before awaiting.
ItemFeed(promise, feeds) == promise.feed

\* parsedFeed.items.slice(0, limit).map(...) of getFeedItems.
FeedItems(rawItems, feed, limit, now) ==
    [i \in 1..Min(limit, Len(rawItems)) |->
        [pubDate |-> OrDate(rawItems[i].pubDate,
                           OrDate(rawItems[i].isoDate, DateAt(now))),
         isoDate |-> rawItems[i].isoDate,
         source |-> feed.title,
         sourceUrl |-> OrElse(feed.htmlUrl, feed.url)]]

\* The promises getAllFeedItems pushes, in registry order.
FeedPromises(feeds, category, limit) ==
    LET chosen(e) == IsCandidate(e, category)
        candidates == Select(feeds, chosen)
    IN  [i \in 1..Len(candidates) |->
           Pending(candidates[i], ItemsPerFeed(limit, Len(feeds)))]

\* a.isoDate || a.pubDate
EffectiveDate(item) == OrDate(item.isoDate, item.pubDate)

\* dateB.getTime() - dateA.getTime() > 0: false when either time is NaN.
ItemAfter(a, b) ==
    /\ EffectiveDate(a).k = "date"
    /\ EffectiveDate(b).k = "date"
    /\ EffectiveDate(b).t > EffectiveDate(a).t

\* A join that resolves at the first failure (Promise.all).
SettledOrFailed(promises) ==
    \/ \A i \in 1..Len(promises) : promises[i].status # "pending"
    \/ \E i \in 1..Len(promises) : promises[i].status = "rejected"

\* Promise.allSettled resolves: every promise has settled.
AllSettled(promises) == \A i \in 1..Len(promises) : promises[i].status # "pending"

\* A join that gives up the whole batch when one member fails (Promise.all).
FulfilledItemsAllOrNothing(results) ==
    IF \E i \in 1..Len(results) : results[i].status = "rejected" THEN <<>>
    ELSE LET all[i \in 0..Len(results)] ==
                 IF i = 0 THEN <<>> ELSE all[i - 1] \o results[i].value
         IN  all[Len(results)]

\* results.filter(fulfilled).flatMap(value)
FulfilledItems(results) ==
    LET all[i \in 0..Len(results)] ==
            IF i = 0 THEN <<>>
            ELSE IF results[i].status = "fulfilled" THEN all[i - 1] \o results[i].value
            ELSE all[i - 1]
    IN  all[Len(results)]

\* What getAllFeedItems returns for the settled results.
MergedItems(results, limit) ==
    LET sorted == SortBy(FulfilledItems(results), ItemAfter)
    IN  SubSeq(sorted, 1, Min(limit, Len(sorted)))

\* ------------------------------------------------------------------------
\* The CallTool handler: dispatch
\* ------------------------------------------------------------------------

\* typeof arg === 'string' ? arg : ''
StringArg(arg) == IF arg = Undefined THEN <<>> ELSE arg

\* The branch of the if/else chain a (lowercased) command and param take.
Branch(command, param) ==
    IF command = S_latest THEN "latest"
    ELSE IF command = S_top \/ command = S_best THEN "top"
    ELSE IF command = S_history THEN "history"
    ELSE IF command = S_comments THEN "comments"
    ELSE IF StartsWith(command, S_dashdash) THEN "feed"
    ELSE IF command = S_list THEN "list"
    ELSE IF command = S_setFeedsPath /\ Len(param) > 0 THEN "set"
    ELSE "other"

topicSubstrings ==
    {<<"n", "e", "w", "s">>,
     <<"t", "e", "c", "h">>,
     <<"s", "p", "o", "r", "t">>,
     <<"s", "c", "i", "e", "n", "c", "e">>,
     <<"b", "u", "s", "i", "n", "e", "s", "s">>,
     <<"h", "e", "a", "l", "t", "h">>}

\* command.split(/\s+/): the pieces between runs of spaces.
SplitWords(s) ==
    LET words[i \in 0..Len(s)] ==
            IF i = 0 THEN <<<<>>>>
            ELSE IF s[i] = " "
                 THEN IF i > 1 /\ s[i - 1] = " " THEN words[i - 1]
                      ELSE Append(words[i - 1], <<>>)
            ELSE [words[i - 1] EXCEPT ![Len(words[i - 1])] = Append(@, s[i])]
    IN  words[Len(s)]

\* The first word of three letters or more that the resolver resolves.
FirstResolvedWord(command, feeds) ==
    LET resolves(w) == Len(w) >= 3 /\ GetCategoryByKeyword(w, feeds) # Undefined
    IN  Find(SplitWords(command), resolves)

\* The else branch of the handler: what it fetches, if anything.
\* [branch, filter], branch "unknown" when it only answers the help text.
KeywordPlan(command, feeds) ==
    LET matchedCategory == GetCategoryByKeyword(command, feeds)
        word == FirstResolvedWord(command, feeds)
    IN  IF matchedCategory # Undefined
        THEN [branch |-> "category", filter |-> matchedCategory]
        ELSE IF \E topic \in topicSubstrings : Includes(command, topic)
        THEN [branch |-> "keyword", filter |-> command]
        ELSE IF Len(SplitWords(command)) > 1 /\ word # Undefined
        THEN [branch |-> "word", filter |-> GetCategoryByKeyword(word, feeds)]
        ELSE [branch |-> "unknown", filter |-> Undefined]

\* ------------------------------------------------------------------------
\* State
\* ------------------------------------------------------------------------

VARIABLES
    feeds,      \* RSSAggregator.feeds, the registry
    feedsPath,  \* RSSAggregator.feedsPath (Undefined for null)
    req,        \* the request that is awaiting its fetches, if any
    resp        \* the response to the latest request (kind "none" while it is awaited)

vars == <<feeds, feedsPath, req, resp>>

\* No request is awaiting: one request at a time awaits its fetches, the
\* requests that answer without awaiting are served at any moment.
Idle ==
    [pc |-> "idle", kind |-> "none", command |-> <<>>, param |-> <<>>, limit |-> 0,
     branch |-> "none", filter |-> Undefined, promises |-> <<>>]

\* A response: its kind, the request it answers, and what the handler had in
\* hand when it built the text.
Response(kind, command, param) ==
    [kind |-> kind, command |-> command, param |-> param,
     limit |-> ExtractLimit(param), branch |-> Branch(command, param),
     filter |-> Undefined, results |-> <<>>, items |-> <<>>, lines |-> <<>>,
     rendered |-> FALSE]

NoResponse == Response("none", <<>>, <<>>)

\* The constructor: initializeFeeds with the feedsPath the config names.
InitWith(configured) ==
    /\ feeds = InitializeFeeds(configured)
    /\ feedsPath = configured
    /\ req = Idle
    /\ resp = NoResponse

\* ------------------------------------------------------------------------
\* The CallTool handler, one action per branch. cmdArg and prmArg are the
\* request's arguments (Undefined for a missing param).
\* ------------------------------------------------------------------------

Command(cmdArg) == ToLowerCase(StringArg(cmdArg))

Awaiting(kind, command, param, branch, filter, promises) ==
    [pc |-> "waiting", kind |-> kind, command |-> command, param |-> param,
     limit |-> ExtractLimit(param), branch |-> branch, filter |-> filter,
     promises |-> promises]

\* "latest", "top", "best", "history": getAllFeedItems(undefined, limit).
FetchAllCommand(cmdArg, prmArg) ==
    LET command == Command(cmdArg)
        param == StringArg(prmArg)
    IN  /\ Branch(command, param) \in {"latest", "top", "history"}
        /\ req.pc = "idle"
        /\ req' = Awaiting("all", command, param, Branch(command, param), Undefined,
                           FeedPromises(feeds, Undefined, ExtractLimit(param)))
        /\ resp' = NoResponse
        /\ UNCHANGED <<feeds, feedsPath>>

\* "comments": the fixed answer.
CommentsCommand(cmdArg, prmArg) ==
    LET command == Command(cmdArg)
        param == StringArg(prmArg)
    IN  /\ Branch(command, param) = "comments"
        /\ resp' = Response("comments", command, param)
        /\ UNCHANGED <<feeds, feedsPath, req>>

\* "--<feedId>": getFeedItems(feedId, limit). An unknown id is answered at
\* once, a known one after its fetch.
FeedCommand(cmdArg, prmArg) ==
    LET command == Command(cmdArg)
        param == StringArg(prmArg)
        feedId == Slice(command, Len(S_dashdash))
    IN  /\ Branch(command, param) = "feed"
        /\ IF MapHas(feeds, feedId)
           THEN /\ req.pc = "idle"
                /\ req' = Awaiting("one", command, param, "feed", Undefined,
                                   <<Pending(MapGet(feeds, feedId), ExtractLimit(param))>>)
                /\ resp' = NoResponse
           ELSE /\ resp' = Response("feed_error", command, param)
                /\ UNCHANGED req
        /\ UNCHANGED <<feeds, feedsPath>>

\* A "list" that sorts the registry itself by title, where getFeedsList
\* sorts the per-category arrays it has built.
ListCommandSortsRegistry(cmdArg, prmArg) ==
    LET command == Command(cmdArg)
        param == StringArg(prmArg)
    IN  /\ Branch(command, param) = "list"
        /\ resp' = [Response("list", command, param) EXCEPT !.lines = GetFeedsList(feeds)]
        /\ feeds' = SortBy(feeds, TitleAfter)
        /\ UNCHANGED <<feedsPath, req>>

\* "list": getFeedsList.
ListCommand(cmdArg, prmArg) ==
    LET command == Command(cmdArg)
        param == StringArg(prmArg)
    IN  /\ Branch(command, param) = "list"
        /\ resp' = [Response("list", command, param) EXCEPT !.lines = GetFeedsList(feeds)]
        /\ UNCHANGED <<feeds, feedsPath, req>>

\* param.replace(/^--/, '')
FeedsPathOf(param) ==
    IF StartsWith(param, S_dashdash) THEN Slice(param, Len(S_dashdash)) ELSE param

\* "set-feeds-path": setFeedsPath(param.replace(/^--/, '')).
SetFeedsPathCommand(cmdArg, prmArg) ==
    LET command == Command(cmdArg)
        param == StringArg(prmArg)
        set == SetFeedsPath(FeedsPathOf(param), feeds, feedsPath)
    IN  /\ Branch(command, param) = "set"
        /\ feeds' = set.feeds
        /\ feedsPath' = set.feedsPath
        /\ resp' = Response(IF set.ok THEN "set_ok" ELSE "set_error", command, param)
        /\ UNCHANGED req

\* Anything else: the category resolver, the topic substrings, the words.
KeywordCommand(cmdArg, prmArg) ==
    LET command == Command(cmdArg)
        param == StringArg(prmArg)
        plan == KeywordPlan(command, feeds)
    IN  /\ Branch(command, param) = "other"
        /\ IF plan.branch = "unknown"
           THEN /\ resp' = Response("unknown", command, param)
                /\ UNCHANGED req
           ELSE /\ req.pc = "idle"
                /\ req' = Awaiting("all", command, param, plan.branch, plan.filter,
                                   FeedPromises(feeds, plan.filter, ExtractLimit(param)))
                /\ resp' = NoResponse
        /\ UNCHANGED <<feeds, feedsPath>>

\* ------------------------------------------------------------------------
\* The fetches. parser.parseURL(url) answers with the feed's raw items
\* [pubDate, isoDate], or fails; now is the clock of new Date().
\* ------------------------------------------------------------------------

Fulfil(i, rawItems, now) ==
    /\ req.pc = "waiting"
    /\ i \in 1..Len(req.promises)
    /\ req.promises[i].status = "pending"
    /\ req' = [req EXCEPT !.promises[i].status = "fulfilled",
                          !.promises[i].value =
                              FeedItems(rawItems, ItemFeed(req.promises[i], feeds),
                                        req.promises[i].limit, now)]
    /\ UNCHANGED <<feeds, feedsPath, resp>>

Reject(i) ==
    /\ req.pc = "waiting"
    /\ i \in 1..Len(req.promises)
    /\ req.promises[i].status = "pending"
    /\ req' = [req EXCEPT !.promises[i].status = "rejected"]
    /\ UNCHANGED <<feeds, feedsPath, resp>>

\* formatItemsResponse: "No articles found." for no items, else the items as
\* the formatter service renders them, or as the local fallback does.
ItemsResponse(items, results, viaService) ==
    [Response(IF Len(items) = 0 THEN "no_articles" ELSE "articles",
              req.command, req.param)
       EXCEPT !.branch = req.branch, !.filter = req.filter, !.results = results,
              !.items = items, !.rendered = viaService /\ Len(items) > 0]

\* The handler resumes after await getAllFeedItems(...): merge, sort, cut,
\* format.
RespondAll(viaService) ==
    /\ req.pc = "waiting"
    /\ req.kind = "all"
    /\ AllSettled(req.promises)
    /\ resp' = ItemsResponse(MergedItems(req.promises, req.limit), req.promises,
                             viaService)
    /\ req' = Idle
    /\ UNCHANGED <<feeds, feedsPath>>

\* The handler resumes after await getFeedItems(feedId, limit): the items, or
\* the "not found or couldn't be fetched" text.
RespondOne(viaService) ==
    /\ req.pc = "waiting"
    /\ req.kind = "one"
    /\ AllSettled(req.promises)
    /\ resp' = IF req.promises[1].status = "fulfilled"
               THEN ItemsResponse(req.promises[1].value, req.promises, viaService)
               ELSE [Response("feed_error", req.command, req.param)
                       EXCEPT !.results = req.promises]
    /\ req' = Idle
    /\ UNCHANGED <<feeds, feedsPath>>

\* The requests, the fetch outcomes and the clock readings of a run.
NextWith(requests, outcomes, clock) ==
    \/ \E r \in requests : FetchAllCommand(r[1], r[2])
    \/ \E r \in requests : CommentsCommand(r[1], r[2])
    \/ \E r \in requests : FeedCommand(r[1], r[2])
    \/ \E r \in requests : ListCommand(r[1], r[2])
    \/ \E r \in requests : SetFeedsPathCommand(r[1], r[2])
    \/ \E r \in requests : KeywordCommand(r[1], r[2])
    \/ \E i \in 1..Len(req.promises), r \in outcomes, now \in clock : Fulfil(i, r, now)
    \/ \E i \in 1..Len(req.promises) : Reject(i)
    \/ \E viaService \in BOOLEAN : RespondAll(viaService)
    \/ \E viaService \in BOOLEAN : RespondOne(viaService)

\* ------------------------------------------------------------------------
\* Runs: the requests, fetch outcomes and start-up configurations explored
\* ------------------------------------------------------------------------

\* Times are 1..MaxTime.
MaxTime == 3

C_Latest == <<"L", "a", "t", "e", "s", "t">>

C_top == <<"t", "o", "p">>

C_history == <<"h", "i", "s", "t", "o", "r", "y">>

C_comments == <<"c", "o", "m", "m", "e", "n", "t", "s">>

C_list == <<"l", "i", "s", "t">>

C_set == <<"s", "e", "t", "-", "f", "e", "e", "d", "s", "-", "p", "a", "t", "h">>

C_feedA == <<"-", "-", "a", "-", "i", "o">>

C_feedB == <<"-", "-", "b", "-", "o", "r", "g">>

C_feedHn == <<"-", "-", "n", "e", "w", "s", "-", "y", "c", "o", "m", "b", "i", "n", "a", "t", "o", "r", "-", "c", "o", "m">>

C_feedNone == <<"-", "-", "n", "o", "p", "e">>

C_deepTech == <<"D", "e", "e", "p", " ", "T", "e", "c", "h">>

C_sport == <<"s", "p", "o", "r", "t">>

C_health == <<"h", "e", "a", "l", "t", "h">>

C_xyz == <<"x", "y", "z", "z", "y">>

C_myScience == <<"m", "y", " ", "s", "c", "i", "e", "n", "c", "e">>

C_sciFi == <<"s", "c", "i", " ", "f", "i">>

C_research == <<"r", "e", "s", "e", "a", "r", "c", "h">>

C_goDeep == <<"g", "o", " ", "d", "e", "e", "p", "e", "r">>

C_techNews == <<"t", "e", "c", "h", " ", "n", "e", "w", "s">>

A_1 == <<"-", "-", "1">>

A_3 == <<"-", "-", "3">>

A_a == <<"-", "-", "/", "a", ".", "j", "s", "o", "n">>

A_b == <<"-", "-", "/", "b", ".", "O", "P", "M", "L">>

A_part == <<"-", "-", "/", "p", "a", "r", "t", ".", "j", "s", "o", "n">>

A_txt == <<"-", "-", "/", "c", ".", "t", "x", "t">>

A_badJson == <<"-", "-", "/", "x", ".", "j", "s", "o", "n">>

A_badOpml == <<"/", "x", ".", "o", "p", "m", "l">>

A_obj == <<"-", "-", "/", "o", ".", "j", "s", "o", "n">>

A_dir == <<"-", "-", "/", "d", ".", "j", "s", "o", "n">>

A_missing == <<"-", "-", "/", "n", "o", ".", "j", "s", "o", "n">>

A_empty == <<"-", "-", "/", "e", ".", "j", "s", "o", "n">>

\* Raw items of a parsed feed: dated (rss-parser gives pubDate and its
\* isoDate), with a pubDate that is no date, with no date at all, and with
\* an isoDate other than its pubDate.
Dated(t) == [pubDate |-> DateAt(t), isoDate |-> DateAt(t)]

Undatable == [pubDate |-> JunkDate, isoDate |-> NoDate]

Undated == [pubDate |-> NoDate, isoDate |-> NoDate]

Redated(t, iso) == [pubDate |-> DateAt(t), isoDate |-> DateAt(iso)]

FetchOutcomes ==
    {<<>>, <<Dated(1), Undatable>>, <<Redated(MaxTime, 1), Undated>>}
      \cup {<<Dated(t), Dated(t - 1)>> : t \in 2..MaxTime}

PlainOutcomes == {<<Dated(MaxTime)>>}

Clock == {MaxTime}

Requests ==
    {<<C_Latest, A_3>>, <<C_top, Undefined>>, <<C_history, A_1>>,
     <<C_comments, Undefined>>, <<C_feedA, A_1>>, <<C_feedNone, Undefined>>,
     <<C_list, Undefined>>, <<C_set, A_b>>, <<C_set, A_missing>>,
     <<C_deepTech, A_3>>, <<C_sport, Undefined>>, <<C_health, Undefined>>,
     <<C_xyz, Undefined>>}

Configured == {P_a}

Init == \E configured \in Configured : InitWith(configured)

Next == NextWith(Requests, FetchOutcomes, Clock)

Spec == Init /\ [][Next]_vars

\* WF on the fetches: every fetch completes or fails (the hypothesis of the
\* liveness claim); WF on the handler's resumption: the event loop runs a
\* continuation whose promise has resolved.
Settle == \E i \in 1..Len(req.promises) :
             \/ Reject(i)
             \/ \E r \in PlainOutcomes, now \in Clock : Fulfil(i, r, now)

Resume == \E viaService \in BOOLEAN : RespondAll(viaService) \/ RespondOne(viaService)

FairSpec ==
    /\ Init
    /\ [][NextWith(Requests, PlainOutcomes, Clock)]_vars
    /\ WF_vars(Settle)
    /\ WF_vars(Resume)

\* Runs about the registry: the source files of every kind, at start-up and
\* on set-feeds-path, with list and single-feed requests in between.
RegistryRequests ==
    {<<C_list, Undefined>>, <<C_set, A_a>>, <<C_set, A_b>>, <<C_set, A_part>>,
     <<C_set, A_txt>>, <<C_set, A_badJson>>, <<C_set, A_badOpml>>, <<C_set, A_obj>>,
     <<C_set, A_dir>>, <<C_set, A_missing>>, <<C_set, A_empty>>,
     <<C_feedHn, Undefined>>, <<C_feedB, A_1>>}

RegistryConfigured == {Undefined, P_a, P_badJson, P_part, P_missing, P_empty}

RegistryInit == \E configured \in RegistryConfigured : InitWith(configured)

RegistryNext ==
    \/ \E r \in RegistryRequests : ListCommand(r[1], r[2])
    \/ \E r \in RegistryRequests : SetFeedsPathCommand(r[1], r[2])
    \/ \E r \in RegistryRequests : FeedCommand(r[1], r[2])
    \/ \E r \in PlainOutcomes, now \in Clock : Fulfil(1, r, now)
    \/ Reject(1)
    \/ \E viaService \in BOOLEAN : RespondOne(viaService)

RegistrySpec == RegistryInit /\ [][RegistryNext]_vars

\* Runs about the category resolver: registries with the categories "Tech",
\* "Science", "Deep Tech" and "Tech News", and commands that the resolver
\* answers in each of its layers or not at all.
ResolverRequests ==
    {<<C_deepTech, Undefined>>, <<C_goDeep, Undefined>>, <<C_sciFi, A_1>>,
     <<C_myScience, Undefined>>, <<C_research, Undefined>>, <<C_xyz, Undefined>>,
     <<C_sport, Undefined>>, <<C_techNews, Undefined>>, <<C_health, Undefined>>,
     <<C_set, A_b>>, <<C_set, A_a>>}

ResolverConfigured == {Undefined, P_a, P_b, P_badJson}

ResolverInit == \E configured \in ResolverConfigured : InitWith(configured)

ResolverNext ==
    \/ \E r \in ResolverRequests : KeywordCommand(r[1], r[2])
    \/ \E r \in ResolverRequests : SetFeedsPathCommand(r[1], r[2])
    \/ \E i \in 1..Len(req.promises), r \in PlainOutcomes, now \in Clock : Fulfil(i, r, now)
    \/ \E i \in 1..Len(req.promises) : Reject(i)
    \/ \E viaService \in BOOLEAN : RespondAll(viaService)

ResolverSpec == ResolverInit /\ [][ResolverNext]_vars

\* Runs about the limit: params of every shape, on a request for all feeds
\* and on a request for one feed. Digit strings are of MaxDigits digits at
\* most.
MaxDigits == 2

LimitDigits == {"0", "1", "5", "9"}

RECURSIVE DigitStrings(_)
DigitStrings(n) ==
    IF n = 0 THEN {<<>>}
    ELSE {<<>>} \cup {Append(s, d) : s \in DigitStrings(n - 1), d \in LimitDigits}

A_notanumber == <<"n", "o", "t", "a", "n", "u", "m", "b", "e", "r">>

A_12a == <<"-", "-", "1", "2", "a">>

A_a7 == <<"-", "-", "a", "-", "-", "7">>

A_x5 == <<"x", "-", "-", "5">>

A_5 == <<"5">>

A_dash5 == <<"-", "5">>

A_dashes5 == <<"-", "-", "-", "5">>

A_999 == <<"-", "-", "9", "9", "9">>

LimitParams ==
    {S_dashdash \o digits : digits \in DigitStrings(MaxDigits)}
      \cup {Undefined, <<>>, A_notanumber, A_12a, A_a7, A_x5, A_5, A_dash5,
            A_dashes5, A_999}

LimitOutcomes == {<<Dated(2), Dated(1)>>}

LimitNext ==
    \/ \E prmArg \in LimitParams : FetchAllCommand(C_Latest, prmArg)
    \/ \E prmArg \in LimitParams : FeedCommand(C_feedA, prmArg)
    \/ \E i \in 1..Len(req.promises), r \in LimitOutcomes, now \in Clock : Fulfil(i, r, now)
    \/ \E i \in 1..Len(req.promises) : Reject(i)
    \/ \E viaService \in BOOLEAN : RespondAll(viaService)
    \/ \E viaService \in BOOLEAN : RespondOne(viaService)

LimitSpec == Init /\ [][LimitNext]_vars

\* ------------------------------------------------------------------------
\* Properties
\* ------------------------------------------------------------------------

FetchAllBranches == {"latest", "top", "history", "category", "keyword", "word"}

\* The response in hand answers a getAllFeedItems request.
FetchAllAnswered == resp.kind # "none" /\ resp.branch \in FetchAllBranches

\* This step is the synchronous start of a getAllFeedItems request.
FetchAllStarts == req.pc = "idle" /\ req'.pc = "waiting" /\ req'.kind = "all"

Fulfilled(results) == {i \in 1..Len(results) : results[i].status = "fulfilled"}

Rejected(results) == {i \in 1..Len(results) : results[i].status = "rejected"}

RECURSIVE SumOver(_, _)
SumOver(f, S) == IF S = {} THEN 0
                 ELSE LET x == CHOOSE y \in S : TRUE IN f[x] + SumOver(f, S \ {x})

\* The number of items the fetches that succeeded brought.
FetchedCount(results) ==
    SumOver([i \in 1..Len(results) |-> Len(results[i].value)], Fulfilled(results))

\* C3: fetchAll(none, L) returns at most L items, sorted non-increasing by
\* effective timestamp (the ISO timestamp when present, else the primary one).
C3_AtMostLimitAndSorted ==
    (FetchAllAnswered /\ resp.branch \in {"latest", "top", "history"}) =>
        /\ Len(resp.items) <= resp.limit
        /\ \A i, j \in 1..Len(resp.items) :
             LET a == OrDate(resp.items[i].isoDate, resp.items[i].pubDate)
                 b == OrDate(resp.items[j].isoDate, resp.items[j].pubDate)
             IN  (i < j /\ a.k = "date" /\ b.k = "date") => a.t >= b.t

\* C4: fetch failures are contained: fetchAll answers with items, never with
\* an error; every item comes from a fetch that succeeded; nothing is lost
\* but to the limit, so the feeds that succeeded show in the result whatever
\* the others did, and no success (or no candidate) gives no item.
C4_FailuresContained ==
    FetchAllAnswered =>
        /\ resp.kind \in {"articles", "no_articles"}
        /\ \A k \in 1..Len(resp.items) :
             \E i \in Fulfilled(resp.results) :
                \E n \in 1..Len(resp.results[i].value) :
                   resp.results[i].value[n] = resp.items[k]
        /\ Len(resp.items) = Min(resp.limit, FetchedCount(resp.results))
        /\ (FetchedCount(resp.results) <= resp.limit =>
              \A i \in Fulfilled(resp.results) :
                 \A n \in 1..Len(resp.results[i].value) :
                    \E k \in 1..Len(resp.items) :
                       resp.items[k] = resp.results[i].value[n])
        /\ (Fulfilled(resp.results) = {} => resp.kind = "no_articles")

\* C4 witness: one candidate failed, another succeeded, and its items are in
\* the result.
C4_Witness ==
    /\ FetchAllAnswered
    /\ Rejected(resp.results) # {}
    /\ \E i \in Fulfilled(resp.results) :
          /\ Len(resp.results[i].value) > 0
          /\ \E k \in 1..Len(resp.items) : resp.items[k] = resp.results[i].value[1]

PromiseIds(promises) == {promises[i].id : i \in 1..Len(promises)}

LowerIncludes(s, part) == Includes(ToLowerCase(s), ToLowerCase(part))

\* C5 as stated: with a filter, the candidates are the feeds whose category
\* equals, is contained in or contains the filter, or whose title contains
\* it (case aside); with none, every feed.
C5_CandidatesAsStated ==
    [][FetchAllStarts =>
         LET f == req'.filter
             stated(e) ==
               \/ ~Truthy(f)
               \/ /\ Truthy(e.category)
                  /\ \/ ToLowerCase(e.category) = ToLowerCase(f)
                     \/ LowerIncludes(f, e.category)
                     \/ LowerIncludes(e.category, f)
               \/ Truthy(e.title) /\ LowerIncludes(e.title, f)
         IN  PromiseIds(req'.promises)
               = {feeds[i].id : i \in {k \in 1..Len(feeds) : stated(feeds[k])}}]_vars

\* C5 as amended: with a filter, the candidates are the feeds whose category
\* contains the filter (equality included) or whose title contains it, case
\* aside; a category that is only contained in the filter selects nothing;
\* with no filter, every feed is a candidate.
C5_Candidates ==
    [][FetchAllStarts =>
         LET f == req'.filter
             amended(e) ==
               \/ ~Truthy(f)
               \/ Truthy(e.category) /\ LowerIncludes(e.category, f)
               \/ Truthy(e.title) /\ LowerIncludes(e.title, f)
         IN  /\ PromiseIds(req'.promises)
                  = {feeds[i].id : i \in {k \in 1..Len(feeds) : amended(feeds[k])}}
             /\ Len(req'.promises) = Cardinality(PromiseIds(req'.promises))]_vars

\* C5 witness: a filtered fetchAll is under way whose candidates are some of
\* the feeds, one of them chosen by its title alone.
C5_Witness ==
    /\ req.pc = "waiting" /\ req.kind = "all" /\ Truthy(req.filter)
    /\ Len(req.promises) < Len(feeds)
    /\ \E i \in 1..Len(req.promises) :
          /\ LowerIncludes(req.promises[i].feed.title, req.filter)
          /\ ~Truthy(req.promises[i].feed.category)

\* C9: a fetchAll in flight works from one whole registry: the feeds it
\* fetches are the candidates of the registry as it stood when the call
\* selected them, a reload that happens while it waits changes none of them,
\* and every item it collects is stamped with the feed it captured.
C9_WholeRegistry ==
    [][/\ FetchAllStarts =>
            /\ feeds' = feeds
            /\ \A i \in 1..Len(req'.promises) :
                  \E k \in 1..Len(feeds) : req'.promises[i].feed = feeds[k]
       /\ (req.pc = "waiting" /\ req.kind = "all" /\ req'.pc = "waiting") =>
            /\ Len(req'.promises) = Len(req.promises)
            /\ \A i \in 1..Len(req.promises) :
                  /\ req'.promises[i].feed = req.promises[i].feed
                  /\ req'.promises[i].url = req.promises[i].feed.url
                  /\ \A n \in 1..Len(req'.promises[i].value) :
                        /\ req'.promises[i].value[n].source = req.promises[i].feed.title
                        /\ req'.promises[i].value[n].sourceUrl
                             = OrElse(req.promises[i].feed.htmlUrl,
                                      req.promises[i].feed.url)]_vars

\* C9 witness: a fetch of a fetchAll in flight has brought items although a
\* reload has meanwhile replaced the feed it was started for.
C9_Witness ==
    /\ req.pc = "waiting" /\ req.kind = "all"
    /\ \E i \in 1..Len(req.promises) :
          /\ Len(req.promises[i].value) > 0
          /\ MapHas(feeds, req.promises[i].id)
          /\ MapGet(feeds, req.promises[i].id) # req.promises[i].feed

\* C10: fetchAll starts one fetch per candidate, all pending; it returns only
\* when every one has completed or failed, a failure among them
\* notwithstanding; and once they all settle it does return.
C10_JoinsAll ==
    /\ [][FetchAllStarts =>
            LET chosen(e) == IsCandidate(e, req'.filter)
            IN  /\ Len(req'.promises) = Len(Select(feeds, chosen))
                /\ \A i \in 1..Len(req'.promises) : req'.promises[i].status = "pending"]_vars
    /\ [][(req.pc = "waiting" /\ req.kind = "all" /\ req'.pc = "idle") =>
            /\ \A i \in 1..Len(req.promises) :
                  req.promises[i].status \in {"fulfilled", "rejected"}
            /\ resp'.results = req.promises]_vars
    /\ (req.pc = "waiting" /\ req.kind = "all") ~> (req.pc = "idle")

\* C10 witness: one fetch of a fetchAll has failed, another is still pending,
\* and the fetchAll has not returned.
C10_Witness ==
    /\ req.pc = "waiting" /\ req.kind = "all"
    /\ \E i, j \in 1..Len(req.promises) :
          req.promises[i].status = "rejected" /\ req.promises[j].status = "pending"

\* The path a set-feeds-path request names: param.replace(/^--/, '').
RequestedPath(param) ==
    IF StartsWith(param, S_dashdash) THEN Slice(param, Len(S_dashdash)) ELSE param

\* This step serves a set-feeds-path request.
SetFeedsPathServed ==
    /\ req' = req
    /\ resp'.branch = "set"
    /\ resp' # resp \/ feeds' # feeds \/ feedsPath' # feedsPath

Entries(m) == {m[i] : i \in 1..Len(m)}

\* C1: a successful reload replaces the registry: afterwards it holds exactly
\* the feeds of the new source, none that only the previous registry had.
C1_ReloadReplaces ==
    [][(SetFeedsPathServed /\ resp'.kind = "set_ok") =>
         Entries(feeds')
           = Entries(LoadFeedsFromFile(RequestedPath(resp'.param), <<>>).feeds)]_vars

\* C2: a set-feeds-path that fails leaves the registry as it was and answers
\* with an error text.
C2_FailedReloadKeepsRegistry ==
    [][(SetFeedsPathServed /\ resp'.kind # "set_ok") =>
         resp'.kind = "set_error" /\ feeds' = feeds]_vars

\* C7: every identifier list shows is a key of the registry, and the feed
\* under that key is the one the line shows.
C7_ListedIdsFetchable ==
    [][(req' = req /\ feeds' = feeds /\ resp'.kind = "list") =>
         \A n \in 1..Len(resp'.lines) :
            /\ MapHas(feeds', resp'.lines[n].feedId)
            /\ MapGet(feeds', resp'.lines[n].feedId).title = resp'.lines[n].title]_vars

\* This step is the handler's else branch starting a fetchAll.
KeywordStarts ==
    /\ req.pc = "idle" /\ req'.pc = "waiting"
    /\ req'.branch \in {"category", "keyword", "word"}

\* This step is the handler's else branch: it starts a fetchAll, or answers
\* the help text.
KeywordServed ==
    \/ KeywordStarts
    \/ req' = req /\ feeds' = feeds /\ resp'.kind = "unknown"

\* The command of that step, and the category the resolver gave for it
\* (Undefined when it gave none and the handler went on to its other tests).
KeywordAsked == IF KeywordStarts THEN req'.command ELSE resp'.command

Resolved == IF KeywordStarts /\ req'.branch = "category" THEN req'.filter ELSE Undefined

\* The labels before position n of categories are all rejected by Test.
FirstAt(categories, n, Test(_)) ==
    /\ Test(categories[n])
    /\ \A m \in 1..(n - 1) : ~Test(categories[m])

\* C6 as stated: with no category equal to the keyword, the resolver gives
\* the first category that contains the keyword or the keyword's own first
\* whitespace-delimited token, and the synonym table's answer when there is
\* none.
C6_SubstringLayerAsStated ==
    [][KeywordServed =>
         LET keyword == KeywordAsked
             categories == GetCategories(feeds)
             resolved == Resolved
             stated(c) == \/ LowerIncludes(c, keyword)
                          \/ LowerIncludes(c, FirstToken(keyword, " "))
         IN  (\A n \in 1..Len(categories) : ToLowerCase(categories[n]) # keyword) =>
               IF \E n \in 1..Len(categories) : stated(categories[n])
               THEN \E n \in 1..Len(categories) :
                       resolved = categories[n] /\ FirstAt(categories, n, stated)
               ELSE resolved = SynonymMatch(keywordMap, categories, keyword)]_vars

\* C6 as amended: with no category equal to the keyword, the resolver gives
\* the first category (in sorted order) that contains the keyword or whose
\* own first space-delimited word is contained in the keyword, case aside;
\* the synonym table answers only when no category passes that test.
C6_SubstringLayer ==
    [][KeywordServed =>
         LET keyword == KeywordAsked
             categories == GetCategories(feeds)
             resolved == Resolved
             amended(c) == \/ LowerIncludes(c, keyword)
                           \/ LowerIncludes(keyword, FirstToken(ToLowerCase(c), " "))
         IN  (\A n \in 1..Len(categories) : ToLowerCase(categories[n]) # keyword) =>
               IF \E n \in 1..Len(categories) : amended(categories[n])
               THEN \E n \in 1..Len(categories) :
                       resolved = categories[n] /\ FirstAt(categories, n, amended)
               ELSE resolved = SynonymMatch(keywordMap, categories, keyword)]_vars

\* C6 witness: a command resolved to a category that neither equals nor
\* contains it, by the category's first word being part of the command.
C6_Witness ==
    /\ req.pc = "waiting" /\ req.branch = "category"
    /\ ~LowerIncludes(req.filter, req.command)
    /\ LowerIncludes(req.command, FirstToken(ToLowerCase(req.filter), " "))
    /\ Len(FirstToken(ToLowerCase(req.filter), " ")) < Len(req.filter)

\* 10 to the n.
RECURSIVE PowerOfTen(_)
PowerOfTen(n) == IF n = 0 THEN 1 ELSE 10 * PowerOfTen(n - 1)

\* The number a string of digits writes in base ten.
DecimalValue(digits) ==
    SumOver([i \in 1..Len(digits) |->
                (IndexOf(DigitChars, digits[i]) - 1) * PowerOfTen(Len(digits) - i)],
            1..Len(digits))

\* p[i], p[i + 1] are "--" and p[i + 2 .. j] is a maximal, non-empty run of
\* digits.
DashedNumberAt(p, i, j) ==
    /\ i >= 1 /\ i + 2 <= j /\ j <= Len(p)
    /\ p[i] = "-" /\ p[i + 1] = "-"
    /\ \A k \in (i + 2)..j : p[k] \in Range(DigitChars)
    /\ (j < Len(p) => p[j + 1] \notin Range(DigitChars))

\* The limit the amended statement gives for param p.
LimitOf(p) ==
    LET found == {ij \in (1..Len(p)) \X (1..Len(p)) : DashedNumberAt(p, ij[1], ij[2])}
    IN  IF Len(p) >= 2 /\ p[1] = "-" /\ p[2] = "-" /\ found # {}
        THEN LET first == CHOOSE ij \in found : \A other \in found : ij[1] <= other[1]
                 n == DecimalValue(SubSeq(p, first[1] + 2, first[2]))
             IN  IF n < MinLimit THEN MinLimit ELSE IF n > MaxLimit THEN MaxLimit ELSE n
        ELSE DefaultLimit

\* The limit the statement gives for param p, read as: p is "--" followed by
\* digits and nothing else.
StatedLimitOf(p) ==
    IF /\ Len(p) > 2 /\ p[1] = "-" /\ p[2] = "-"
       /\ \A k \in 3..Len(p) : p[k] \in Range(DigitChars)
    THEN LET n == DecimalValue(SubSeq(p, 3, Len(p)))
         IN  IF n < MinLimit THEN MinLimit ELSE IF n > MaxLimit THEN MaxLimit ELSE n
    ELSE DefaultLimit

\* The limit agrees with Of(param) on the request that is awaited and on the
\* response in hand, and the items answered are no more than it.
LimitIs(Of(_)) ==
    /\ req.pc = "waiting" =>
          /\ req.limit = Of(req.param)
          /\ \A i \in 1..Len(req.promises) :
                /\ req.promises[i].limit * Len(feeds) >= Of(req.param)
                /\ Len(req.promises[i].value) <= req.promises[i].limit
    /\ resp.kind # "none" =>
          /\ resp.limit = Of(resp.param)
          /\ Len(resp.items) <= Of(resp.param)

\* C8 as stated: the limit is in [1,50]; it is the number of a param of the
\* form "--<digits>", clamped to [1,50], and 10 for every other param.
C8_LimitAsStated ==
    /\ req.pc = "waiting" => req.limit \in MinLimit..MaxLimit
    /\ resp.kind # "none" => resp.limit \in MinLimit..MaxLimit
    /\ LimitIs(StatedLimitOf)

\* C8 as amended: the limit is in [1,50]; for a param that starts with "--"
\* and holds "--" directly followed by digits, it is the number written by
\* the leftmost such run of digits, clamped to [1,50], whatever follows or
\* lies between; for every other param it is 10.
C8_Limit ==
    /\ req.pc = "waiting" => req.limit \in MinLimit..MaxLimit
    /\ resp.kind # "none" => resp.limit \in MinLimit..MaxLimit
    /\ LimitIs(LimitOf)

\* C8 witness: items were answered under a limit other than 10 that a param
\* gave which is not "--" and digits alone.
C8_Witness ==
    /\ resp.kind = "articles"
    /\ resp.limit # DefaultLimit
    /\ resp.limit # StatedLimitOf(resp.param)
    /\ Len(resp.items) > 0

\* This step belongs to the set-feeds-path branch: it answers such a request
\* and touches no request that is awaited.
SetFeedsPathStep == req' = req /\ resp'.branch = "set"

\* C11: every step of every command branch other than set-feeds-path (the
\* start of a request, the settling of its fetches whether they succeed or
\* fail, its answer) leaves the registry, and the path it was loaded from,
\* as they were.
C11_OnlySetFeedsPathWrites ==
    [][~SetFeedsPathStep => (feeds' = feeds /\ feedsPath' = feedsPath)]_vars

\* C11 witness: a category or keyword request has been answered after a
\* fetch of it failed, and the registry is the one the server started with.
C11_Witness ==
    /\ resp.kind \in {"articles", "no_articles"}
    /\ resp.branch \in {"category", "keyword", "word"}
    /\ Rejected(resp.results) # {}
    /\ Len(feeds) > 0
    /\ \E configured \in Configured :
          feeds = InitializeFeeds(configured) /\ feedsPath = configured

====
